---- MODULE Spec2Model ----
(***************************************************************************)
(* A model of the patch tool (src/patch.c): one invocation of main, from   *)
(* the getopt loop to the return, against a file system that holds one     *)
(* image file, followed by a second invocation of the same command line.   *)
(*                                                                         *)
(* Text is a sequence of character codes (ASCII).  A uint64_t is a tuple   *)
(* of eight bytes, least significant first: TLC's integers are 32 bits     *)
(* wide, and the program's shifts are all multiples of eight.              *)
(***************************************************************************)
EXTENDS Integers, Sequences, FiniteSets, TLC

(***************************************************************************)
(* Bounds of the model.                                                    *)
(***************************************************************************)
\* longest argument given to copystr in the specification SpecCopystr
MaxStrLen == 4
\* the largest file offset the platform's fseek accepts (stands for LONG_MAX
\* or the file system's limit); an offset above it makes fseek fail
SeekLimit == 1100
\* how far, in bytes, the file system lets the image grow when it is short
\* of space
TightRoom == 1

(***************************************************************************)
(* enum data_type                                                          *)
(***************************************************************************)
type_db == 1
type_dw == 2
type_dd == 4
type_dq == 8
type_str == 0

NULL == "NULL"

(***************************************************************************)
(* 64-bit unsigned arithmetic on eight little-endian bytes.                *)
(***************************************************************************)
Zero64 == <<0, 0, 0, 0, 0, 0, 0, 0>>
LLONG_MAX == <<255, 255, 255, 255, 255, 255, 255, 127>>
LLONG_MIN == <<0, 0, 0, 0, 0, 0, 0, 128>>

\* (v >> sh) & 0xFF, for sh a multiple of 8 below 64
ShrAndFF(v, sh) == v[(sh \div 8) + 1]

\* v * 10 + d as [val, carry]: val the low 64 bits, carry what overflowed
RECURSIVE MulAddFrom(_, _, _, _)
MulAddFrom(v, i, carry, acc) ==
    IF i > 8 THEN [val |-> acc, carry |-> carry]
    ELSE LET t == v[i] * 10 + carry
         IN  MulAddFrom(v, i + 1, t \div 256, Append(acc, t % 256))

MulAdd10(v, d) == MulAddFrom(v, 1, d, <<>>)

\* a > b, both unsigned
RECURSIVE GtFrom(_, _, _)
GtFrom(a, b, i) ==
    IF i < 1 THEN FALSE
    ELSE IF a[i] # b[i] THEN a[i] > b[i]
    ELSE GtFrom(a, b, i - 1)

Gt64(a, b) == GtFrom(a, b, 8)

\* two's complement negation: ~v + 1
RECURSIVE NegFrom(_, _, _, _)
NegFrom(v, i, carry, acc) ==
    IF i > 8 THEN acc
    ELSE LET t == (255 - v[i]) + carry
         IN  NegFrom(v, i + 1, t \div 256, Append(acc, t % 256))

Neg64(v) == NegFrom(v, 1, 1, <<>>)

\* the value of v as a natural number when it is below 2^16, else -1
SmallNat(v) ==
    IF \A i \in 3..8 : v[i] = 0 THEN v[1] + 256 * v[2] ELSE -1

\* v is negative when read as a signed 64-bit integer
IsNegative64(v) == v[8] >= 128

(***************************************************************************)
(* strtoll(arg, NULL, 10): white space, an optional sign, decimal digits;  *)
(* the result saturates at LLONG_MAX / LLONG_MIN; no digits give 0.        *)
(***************************************************************************)
IsSpace(c) == c = 32 \/ (c >= 9 /\ c <= 13)
IsDigit(c) == c >= 48 /\ c <= 57

RECURSIVE SkipSpace(_, _)
SkipSpace(s, i) ==
    IF i <= Len(s) /\ IsSpace(s[i]) THEN SkipSpace(s, i + 1) ELSE i

\* the magnitude of the digits from s[i] on: [val, over], over when the
\* magnitude does not fit 64 bits
RECURSIVE Digits(_, _, _, _)
Digits(s, i, acc, over) ==
    IF i > Len(s) \/ ~IsDigit(s[i]) THEN [val |-> acc, over |-> over]
    ELSE LET m == MulAdd10(acc, s[i] - 48)
         IN  IF m.carry # 0 \/ over
             THEN Digits(s, i + 1, m.val, TRUE)
             ELSE Digits(s, i + 1, m.val, FALSE)

strtoll(s) ==
    LET i   == SkipSpace(s, 1)
        neg == i <= Len(s) /\ s[i] = 45
        j   == IF i <= Len(s) /\ (s[i] = 45 \/ s[i] = 43) THEN i + 1 ELSE i
        m   == Digits(s, j, Zero64, FALSE)
    IN  IF neg
        THEN IF m.over \/ Gt64(m.val, LLONG_MIN) THEN LLONG_MIN
             ELSE Neg64(m.val)
        ELSE IF m.over \/ Gt64(m.val, LLONG_MAX) THEN LLONG_MAX
             ELSE m.val

\* integer_for: uint64_t value = strtoll(arg, NULL, 10)
integer_for(arg) == strtoll(arg)

(***************************************************************************)
(* data_type_for                                                           *)
(***************************************************************************)
\* the texts "dw", "dd", "dq", "str"
Text_dw == <<100, 119>>
Text_dd == <<100, 100>>
Text_dq == <<100, 113>>
Text_str == <<115, 116, 114>>

\* strcmp(a, b) == 0
StrEq(a, b) == a = b

data_type_for(arg) ==
    IF StrEq(arg, Text_dw) THEN type_dw
    ELSE IF StrEq(arg, Text_dd) THEN type_dd
    ELSE IF StrEq(arg, Text_dq) THEN type_dq
    ELSE IF StrEq(arg, Text_str) THEN type_str
    ELSE type_db

(***************************************************************************)
(* copystr: the while loop over *str, r the output written so far.         *)
(* A read of *(str + 1) at the last character reads the terminating NUL.   *)
(***************************************************************************)
CharAt(str, i) == IF i <= Len(str) THEN str[i] ELSE 0

RECURSIVE copystr_loop(_, _, _)
copystr_loop(str, i, r) ==
    IF CharAt(str, i) = 0 THEN r
    ELSE IF str[i] = 92 /\ CharAt(str, i + 1) = 114
         THEN copystr_loop(str, i + 2, Append(r, 13))
    ELSE IF str[i] = 92 /\ CharAt(str, i + 1) = 110
         THEN copystr_loop(str, i + 2, Append(r, 10))
    ELSE copystr_loop(str, i + 1, Append(r, str[i]))

\* the mutant of copystr: the str++ of the two escape branches is missing
RECURSIVE copystr_noskip_loop(_, _, _)
copystr_noskip_loop(str, i, r) ==
    IF CharAt(str, i) = 0 THEN r
    ELSE IF str[i] = 92 /\ CharAt(str, i + 1) = 114
         THEN copystr_noskip_loop(str, i + 1, Append(r, 13))
    ELSE IF str[i] = 92 /\ CharAt(str, i + 1) = 110
         THEN copystr_noskip_loop(str, i + 1, Append(r, 10))
    ELSE copystr_noskip_loop(str, i + 1, Append(r, str[i]))

copystr_noskip(str) == copystr_noskip_loop(str, 1, <<>>)

copystr(str) == copystr_loop(str, 1, <<>>)

(***************************************************************************)
(* resolve_path: wordexp's expansion of the -f value (tilde expansion).    *)
(***************************************************************************)
\* the texts "~/img", "/home/u/img", "nofile"
TildeImg == <<126, 47, 105, 109, 103>>
ImagePath == <<47, 104, 111, 109, 101, 47, 117, 47, 105, 109, 103>>
NoSuchFile == <<110, 111, 102, 105, 108, 101>>

resolve_path(path) ==
    IF Len(path) >= 1 /\ path[1] = 126
    THEN SubSeq(ImagePath, 1, 7) \o SubSeq(path, 2, Len(path))
    ELSE path

(***************************************************************************)
(* The integer encoder of main: uint8_t bytes[8] = { 0 } and the switch    *)
(* whose cases fall through from type_dq down to type_db.  bytes is        *)
(* indexed from 1 here, bytes[k + 1] being the C bytes[k].                 *)
(***************************************************************************)
EncodeCase(v, type, k) ==
    IF \/ (k >= 4 /\ type = type_dq)
       \/ (k >= 2 /\ k <= 3 /\ type \in {type_dq, type_dd})
       \/ (k = 1 /\ type \in {type_dq, type_dd, type_dw})
       \/ (k = 0 /\ type \in {type_dq, type_dd, type_dw, type_db})
    THEN ShrAndFF(v, 8 * k)
    ELSE 0

EncodeBytes(v, type) == [k \in 1..8 |-> EncodeCase(v, type, k - 1)]

(***************************************************************************)
(* The string encoder of main: malloc(length + 1), memset(buffer,          *)
(* pad_value, length), memcpy(buffer, data_in, min(data_in_len, length)).  *)
(* The result is the first length bytes of the buffer; buffer[length] is   *)
(* never initialised and never written to the file.                        *)
(***************************************************************************)
MinOf(a, b) == IF a < b THEN a ELSE b
MaxOf(a, b) == IF a > b THEN a ELSE b

StringBuffer(data, len, pad) ==
    LET data_in_len == Len(data)
        copied == IF data_in_len > len THEN len ELSE data_in_len
    IN  [k \in 1..len |-> IF k <= copied THEN data[k] ELSE pad]

(***************************************************************************)
(* stdio on the image.  fseek fails, and leaves the position where it was, *)
(* when the offset read as a long is negative or above the platform's      *)
(* limit.  fwrite transfers the bytes that fit below the file system's     *)
(* limit for the file (at most the platform's) and returns their number; a *)
(* gap between the old end of the file and the position reads as zeros.    *)
(***************************************************************************)
SeekSucceeds(off) ==
    /\ ~IsNegative64(off)
    /\ SmallNat(off) >= 0
    /\ SmallNat(off) <= SeekLimit

SeekTarget(off, pos, size) == IF SeekSucceeds(off) THEN SmallNat(off) ELSE pos

Transferred(lim, at, n) == MaxOf(0, MinOf(n, lim - at))

\* the mutant of WriteAt: the bytes are inserted at the position instead of
\* replacing what is there
WriteAtInserting(content, at, buf, cnt) ==
    IF cnt = 0 THEN content
    ELSE LET head == IF at <= Len(content) THEN SubSeq(content, 1, at)
                     ELSE content \o [k \in 1..(at - Len(content)) |-> 0]
             tail == SubSeq(content, at + 1, Len(content))
         IN  head \o SubSeq(buf, 1, cnt) \o tail

WriteAt(content, at, buf, cnt) ==
    IF cnt = 0 THEN content
    ELSE LET head == IF at <= Len(content) THEN SubSeq(content, 1, at)
                     ELSE content \o [k \in 1..(at - Len(content)) |-> 0]
             tail == SubSeq(content, at + cnt + 1, Len(content))
         IN  head \o SubSeq(buf, 1, cnt) \o tail

(***************************************************************************)
(* The command lines and files the model runs.                             *)
(***************************************************************************)
Opt(flag, val) == [flag |-> flag, val |-> val]

\* "Hello, World!" and "Hi"
HelloWorld == <<72, 101, 108, 108, 111, 44, 32, 87, 111, 114, 108, 100, 33>>
Hi == <<72, 105>>
\* a, backslash, n, b
EscapedLine == <<97, 92, 110, 98>>

FileArgs == {<<>>, <<Opt("f", TildeImg)>>, <<Opt("f", NoSuchFile)>>}
\* -a absent, 2, 5, -1
OffsetArgs == {<<>>, <<Opt("a", <<50>>)>>, <<Opt("a", <<53>>)>>,
               <<Opt("a", <<45, 49>>)>>}
TypeArgs == {<<>>, <<Opt("t", Text_dw)>>, <<Opt("t", Text_dq)>>, <<Opt("t", Text_str)>>}
\* -l absent, 0, 3
LengthArgs == {<<>>, <<Opt("l", <<48>>)>>, <<Opt("l", <<51>>)>>}
\* -p absent, 288 (of which the low byte, 32, is kept)
PadArgs == {<<>>, <<Opt("p", <<50, 56, 56>>)>>}
\* -d absent, 258, -2, Hi, a\nb
DataArgs == {<<>>, <<Opt("d", <<50, 53, 56>>)>>, <<Opt("d", <<45, 50>>)>>,
             <<Opt("d", Hi)>>, <<Opt("d", EscapedLine)>>}

SmallImages == {<<17, 34, 51, 68>>, <<1, 2, 3, 4, 5, 6, 7, 8, 9, 10>>}

ZeroImage == [k \in 1..1024 |-> 0]

\* the command lines of the documentation (and a few more: an unknown type
\* and flag, a repeated -t, values that saturate, an offset of 1099), run on
\* a 1024-byte file of zeros
Scenarios ==
    { <<Opt("f", TildeImg), Opt("a", <<53, 49, 50>>), Opt("t", Text_str),
        Opt("d", HelloWorld)>>,
      <<Opt("f", TildeImg), Opt("a", <<53, 52, 52>>), Opt("t", Text_dw),
        Opt("d", <<50>>)>>,
      <<Opt("v", <<>>), Opt("f", TildeImg), Opt("a", <<48>>), Opt("t", Text_dd),
        Opt("d", <<51, 48, 53, 52, 49, 57, 56, 57, 54>>)>>,
      <<Opt("f", TildeImg), Opt("t", <<122, 122>>), Opt("?", <<>>),
        Opt("d", <<50, 53, 55>>)>>,
      <<Opt("f", TildeImg), Opt("t", Text_dq), Opt("t", Text_dd),
        Opt("a", <<57, 50, 50, 51, 51, 55, 50, 48, 51, 54, 56, 53, 52, 55,
                   55, 53, 56, 48, 55>>),
        Opt("d", <<57, 57, 57, 57, 57, 57, 57, 57, 57, 57, 57, 57, 57, 57,
                   57, 57, 57, 57, 57, 57>>)>>,
      <<Opt("f", TildeImg), Opt("a", <<49, 48, 57, 57>>), Opt("t", Text_dw),
        Opt("d", <<50>>)>>,
      <<Opt("v", <<>>)>> }

VARIABLES
    argv,       \* the options of the command line, in order
    image0,     \* the image before the first run
    limit,      \* the longest the file system lets the image become
    nullread,   \* what a read through a null pointer does on this platform
    image,      \* the content of the image file
    run,        \* 1: the first run of the command line, 2: the second
    image1,     \* the image after the first run (<<>> during the first run)
    exit1,      \* how the first run ended (-1 during the first run)
    pc,         \* where main is
    optind,     \* getopt's index of the next option
    file, offset, type, length, pad_value, data_in,   \* the locals of main
    fp,         \* NULL, "open" or "closed"
    pos,        \* the file position of fp
    seekok,     \* what fseek returned: TRUE for 0
    buffer,     \* bytes (integer kinds) or buffer (str) handed to fwrite
    count,      \* the number of bytes fwrite is asked to write
    r,          \* what fwrite returned
    derefnull,  \* main has read through data_in while it was NULL
    stdout,     \* the lines printed to standard output
    exit        \* -1 while running, the exit code, or 139 (killed by SIGSEGV)

vars == <<argv, image0, limit, nullread, image, run, image1, exit1, pc, optind, file,
          offset, type, length, pad_value, data_in, fp, pos, seekok, buffer,
          count, r, derefnull, stdout, exit>>

env == <<argv, image0, limit, nullread, run, image1, exit1>>
locals == <<file, offset, type, length, pad_value, data_in>>
stream == <<fp, pos, seekok, buffer, count, r>>

NullData == [null |-> TRUE, str |-> <<>>]
Ptr(s) == [null |-> FALSE, str |-> s]

One64 == <<1, 0, 0, 0, 0, 0, 0, 0>>

\* Reading through a null pointer is undefined: the platform either kills
\* the process (SIGSEGV) or lets the read find some text, here none or "7".
NullReads ==
    {[kill |-> TRUE, found |-> <<>>]}
        \cup {[kill |-> FALSE, found |-> g] : g \in {<<>>, <<55>>}}

Init ==
    /\ \/ /\ \E f \in FileArgs, a \in OffsetArgs, t \in TypeArgs,
               l \in LengthArgs, p \in PadArgs, d \in DataArgs :
               argv = f \o a \o t \o l \o p \o d
          /\ image0 \in SmallImages
          /\ limit \in {Len(image0) + TightRoom, SeekLimit}
       \/ /\ argv \in Scenarios
          /\ image0 = ZeroImage
          /\ limit = SeekLimit
    /\ nullread \in NullReads
    /\ image = image0
    /\ run = 1
    /\ image1 = <<>>
    /\ exit1 = -1
    \* the declarations at the head of main
    /\ pc = "getopt"
    /\ optind = 1
    /\ file = NullData
    /\ offset = Zero64
    /\ type = type_db
    /\ length = One64
    /\ pad_value = 0
    /\ data_in = NullData
    /\ fp = NULL
    /\ pos = 0
    /\ seekok = TRUE
    /\ buffer = <<>>
    /\ count = 0
    /\ r = 0
    /\ derefnull = FALSE
    /\ stdout = <<>>
    /\ exit = -1

(***************************************************************************)
(* The getopt loop: one action for each case of the switch.                *)
(***************************************************************************)
AtOption(flag) ==
    /\ pc = "getopt"
    /\ optind <= Len(argv)
    /\ argv[optind].flag = flag
    /\ optind' = optind + 1

optarg == argv[optind].val

OptF ==
    /\ AtOption("f")
    /\ file' = Ptr(resolve_path(optarg))
    /\ UNCHANGED <<env, image, pc, offset, type, length, pad_value, data_in,
                   stream, derefnull, stdout, exit>>

OptA ==
    /\ AtOption("a")
    /\ offset' = integer_for(optarg)
    /\ UNCHANGED <<env, image, pc, file, type, length, pad_value, data_in,
                   stream, derefnull, stdout, exit>>

OptT ==
    /\ AtOption("t")
    /\ type' = data_type_for(optarg)
    /\ UNCHANGED <<env, image, pc, file, offset, length, pad_value, data_in,
                   stream, derefnull, stdout, exit>>

OptL ==
    /\ AtOption("l")
    /\ length' = integer_for(optarg)
    /\ UNCHANGED <<env, image, pc, file, offset, type, pad_value, data_in,
                   stream, derefnull, stdout, exit>>

OptP ==
    /\ AtOption("p")
    /\ pad_value' = ShrAndFF(integer_for(optarg), 0)
    /\ UNCHANGED <<env, image, pc, file, offset, type, length, data_in,
                   stream, derefnull, stdout, exit>>

OptD ==
    /\ AtOption("d")
    /\ data_in' = Ptr(copystr(optarg))
    /\ UNCHANGED <<env, image, pc, file, offset, type, length, pad_value,
                   stream, derefnull, stdout, exit>>

OptV ==
    /\ AtOption("v")
    /\ stdout' = Append(stdout, "patch tool v0.1 -- Copyright (c) 2019 Tom Hancocks")
    /\ UNCHANGED <<env, image, pc, locals, stream, derefnull, exit>>

\* default: an argument getopt does not know is ignored
OptIgnored ==
    /\ AtOption("?")
    /\ UNCHANGED <<env, image, pc, locals, stream, derefnull, stdout, exit>>

(***************************************************************************)
(* After the loop: if (!file) return 1; fopen(file, "r+"), return 2 when   *)
(* it fails.  "r+" opens an existing file and neither creates nor          *)
(* truncates one.                                                          *)
(***************************************************************************)
NoFile ==
    /\ pc = "getopt"
    /\ optind > Len(argv)
    /\ file = NullData
    /\ pc' = "done"
    /\ exit' = 1
    /\ UNCHANGED <<env, image, optind, locals, stream, derefnull, stdout>>

OpenFail ==
    /\ pc = "getopt"
    /\ optind > Len(argv)
    /\ ~file.null
    /\ file.str # ImagePath
    /\ pc' = "done"
    /\ exit' = 2
    /\ UNCHANGED <<env, image, optind, locals, stream, derefnull, stdout>>

OpenOk ==
    /\ pc = "getopt"
    /\ optind > Len(argv)
    /\ ~file.null
    /\ file.str = ImagePath
    /\ fp' = "open"
    /\ pos' = 0
    /\ pc' = "seek"
    /\ UNCHANGED <<env, image, optind, locals, seekok, buffer, count, r,
                   derefnull, stdout, exit>>

\* fseek(fp, offset, SEEK_SET); its result is not looked at
Seek ==
    /\ pc = "seek"
    /\ seekok' = SeekSucceeds(offset)
    /\ pos' = SeekTarget(offset, pos, Len(image))
    /\ pc' = "encode"
    /\ UNCHANGED <<env, image, optind, locals, fp, buffer, count, r,
                   derefnull, stdout, exit>>

(***************************************************************************)
(* if (type != type_str): the integer branch.  integer_for(data_in) with   *)
(* data_in NULL is strtoll(NULL): undefined behaviour, which either kills  *)
(* the process or goes on with whatever the read found (nullread).         *)
(***************************************************************************)
EncodeInteger ==
    /\ pc = "encode"
    /\ type # type_str
    /\ ~data_in.null
    /\ buffer' = EncodeBytes(integer_for(data_in.str), type)
    /\ count' = type
    /\ pc' = "write"
    /\ UNCHANGED <<env, image, optind, locals, fp, pos, seekok, r, derefnull,
                   stdout, exit>>

IntegerNullData ==
    /\ pc = "encode"
    /\ type # type_str
    /\ data_in.null
    /\ derefnull' = TRUE
    /\ IF nullread.kill
       THEN /\ pc' = "done"
            /\ exit' = 139
            /\ UNCHANGED <<buffer, count>>
       ELSE /\ buffer' = EncodeBytes(integer_for(nullread.found), type)
            /\ count' = type
            /\ pc' = "write"
            /\ UNCHANGED exit
    /\ UNCHANGED <<env, image, optind, locals, fp, pos, seekok, r, stdout>>

(***************************************************************************)
(* else: the string branch.  strlen(data_in) with data_in NULL is          *)
(* undefined behaviour.  The lengths of the model are small enough for     *)
(* malloc(length + 1) to succeed and for strlen's result to fit the        *)
(* uint32_t data_in_len.                                                   *)
(***************************************************************************)
EncodeString ==
    /\ pc = "encode"
    /\ type = type_str
    /\ ~data_in.null
    /\ SmallNat(length) >= 0
    /\ buffer' = StringBuffer(data_in.str, SmallNat(length), pad_value)
    /\ count' = SmallNat(length)
    /\ pc' = "write"
    /\ UNCHANGED <<env, image, optind, locals, fp, pos, seekok, r, derefnull,
                   stdout, exit>>

StringNullData ==
    /\ pc = "encode"
    /\ type = type_str
    /\ data_in.null
    /\ SmallNat(length) >= 0
    /\ derefnull' = TRUE
    /\ IF nullread.kill
       THEN /\ pc' = "done"
            /\ exit' = 139
            /\ UNCHANGED <<buffer, count>>
       ELSE /\ buffer' = StringBuffer(nullread.found, SmallNat(length), pad_value)
            /\ count' = SmallNat(length)
            /\ pc' = "write"
            /\ UNCHANGED exit
    /\ UNCHANGED <<env, image, optind, locals, fp, pos, seekok, r, stdout>>

(***************************************************************************)
(* r = fwrite(buffer, 1, count, fp), then return 3 when r differs from     *)
(* count (fp is left open), else free, fclose(fp) and return 0.            *)
(***************************************************************************)
Fwrite ==
    /\ pc = "write"
    /\ r' = Transferred(limit, pos, count)
    /\ image' = WriteAt(image, pos, buffer, r')
    /\ pos' = pos + r'
    /\ pc' = "written"
    /\ UNCHANGED <<env, optind, locals, fp, seekok, buffer, count, derefnull,
                   stdout, exit>>

ShortWrite ==
    /\ pc = "written"
    /\ r # count
    /\ pc' = "done"
    /\ exit' = 3
    /\ UNCHANGED <<env, image, optind, locals, stream, derefnull, stdout>>

Close ==
    /\ pc = "written"
    /\ r = count
    /\ fp' = "closed"
    /\ pc' = "done"
    /\ exit' = 0
    /\ UNCHANGED <<env, image, optind, locals, pos, seekok, buffer, count, r,
                   derefnull, stdout>>

(***************************************************************************)
(* The same command line is run a second time on the file the first run    *)
(* left: a new process, main's locals as declared.                         *)
(***************************************************************************)
Rerun ==
    /\ pc = "done"
    /\ run = 1
    /\ run' = 2
    /\ image1' = image
    /\ exit1' = exit
    /\ pc' = "getopt"
    /\ optind' = 1
    /\ file' = NullData
    /\ offset' = Zero64
    /\ type' = type_db
    /\ length' = One64
    /\ pad_value' = 0
    /\ data_in' = NullData
    /\ fp' = NULL
    /\ pos' = 0
    /\ seekok' = TRUE
    /\ buffer' = <<>>
    /\ count' = 0
    /\ r' = 0
    /\ derefnull' = FALSE
    /\ stdout' = <<>>
    /\ exit' = -1
    /\ UNCHANGED <<argv, image0, limit, nullread, image>>

Next ==
    \/ OptF \/ OptA \/ OptT \/ OptL \/ OptP \/ OptD \/ OptV \/ OptIgnored
    \/ NoFile \/ OpenFail \/ OpenOk \/ Seek
    \/ EncodeInteger \/ IntegerNullData \/ EncodeString \/ StringNullData
    \/ Fwrite \/ ShortWrite \/ Close
    \/ Rerun

Spec == Init /\ [][Next]_vars

(***************************************************************************)
(* The escape decoder alone: -d with every text of at most MaxStrLen       *)
(* characters over backslash, r, n, a, b, t.                               *)
(***************************************************************************)
Alphabet == {92, 114, 110, 97, 98, 116}

Texts == UNION {[1..n -> Alphabet] : n \in 0..MaxStrLen}

InitCopystr ==
    /\ \E s \in Texts : argv = <<Opt("d", s)>>
    /\ image0 \in SmallImages
    /\ limit = SeekLimit
    /\ nullread \in NullReads
    /\ image = image0
    /\ run = 1
    /\ image1 = <<>>
    /\ exit1 = -1
    /\ pc = "getopt"
    /\ optind = 1
    /\ file = NullData
    /\ offset = Zero64
    /\ type = type_db
    /\ length = One64
    /\ pad_value = 0
    /\ data_in = NullData
    /\ fp = NULL
    /\ pos = 0
    /\ seekok = TRUE
    /\ buffer = <<>>
    /\ count = 0
    /\ r = 0
    /\ derefnull = FALSE
    /\ stdout = <<>>
    /\ exit = -1

SpecCopystr == InitCopystr /\ [][OptD]_vars

(***************************************************************************)
(* What the claims speak of.                                               *)
(***************************************************************************)
Done == pc = "done"

\* the image when the current run began
Before == IF run = 1 THEN image0 ELSE image1

HasFlag(flag) == \E i \in 1..Len(argv) : argv[i].flag = flag

\* the byte of the image at file position p (from 0), -1 when the file has
\* no such byte
ByteAt(p) == IF p >= 0 /\ p < Len(image) THEN image[p + 1] ELSE -1

\* the byte at position offset + i, offset being the value of -a
ByteAtOffset(i) ==
    IF SmallNat(offset) >= 0 THEN ByteAt(SmallNat(offset) + i) ELSE -1

\* file position p lies in [offset, offset + n)
InOffsetRange(p, n) ==
    /\ SmallNat(offset) >= 0
    /\ p >= SmallNat(offset)
    /\ p < SmallNat(offset) + n

\* the position the write began at
WriteStart == pos - r

\* the successful integer run and the successful string run of the claims
IntegerSuccess == Done /\ exit = 0 /\ type # type_str /\ ~data_in.null
StringSuccess == Done /\ exit = 0 /\ type = type_str /\ ~data_in.null

\* what the string encoder is to produce: the first len bytes of s, or s
\* followed by copies of pad
Padded(s, len, pad) ==
    IF Len(s) >= len THEN SubSeq(s, 1, len)
    ELSE s \o [k \in 1..(len - Len(s)) |-> pad]

\* C1: after a successful integer run of width w with -d parsing to v, byte
\* offset + i of the file is (v >> 8i) & 0xFF for every i in 0..w-1.
C1_IntegerBytesAtOffset ==
    IntegerSuccess =>
        \A i \in 0..(type - 1) :
            ByteAtOffset(i) = ShrAndFF(integer_for(data_in.str), 8 * i)

\* C1, where the code stands: the bytes are at the position fseek left,
\* which is offset only when fseek succeeded.
IntegerBytesAtPosition ==
    IntegerSuccess =>
        /\ r = type
        /\ WriteStart = (IF seekok THEN SmallNat(offset) ELSE 0)
        /\ \A i \in 0..(type - 1) :
              ByteAt(WriteStart + i) = ShrAndFF(integer_for(data_in.str), 8 * i)

\* C2: after a successful string run with payload s, length L and pad byte
\* p, the L bytes at [offset, offset + L) are the first L bytes of s, or s
\* followed by L - len(s) copies of p.
C2_StringBytesAtOffset ==
    StringSuccess =>
        LET L == SmallNat(length)
        IN  \A i \in 0..(L - 1) :
                ByteAtOffset(i) = Padded(data_in.str, L, pad_value)[i + 1]

\* C2, where the code stands: the bytes are at the position fseek left.
StringBytesAtPosition ==
    StringSuccess =>
        LET L == SmallNat(length)
        IN  /\ r = L
            /\ WriteStart = (IF seekok THEN SmallNat(offset) ELSE 0)
            /\ \A i \in 0..(L - 1) :
                  ByteAt(WriteStart + i) = Padded(data_in.str, L, pad_value)[i + 1]

\* C3: a string run with -d s and no -l writes the whole of s at offset; on
\* the 1024-byte file of zeros, -a 512 -t str -d "Hello, World!" leaves
\* bytes 512..524 spelling Hello, World!, byte 525 zero and the length 1024.
C3_WholePayloadWithoutLength ==
    /\ (StringSuccess /\ ~HasFlag("l")) =>
          \A i \in 0..(Len(data_in.str) - 1) :
              ByteAtOffset(i) = data_in.str[i + 1]
    /\ (Done /\ image0 = ZeroImage /\ Len(argv) = 4
             /\ argv[4] = Opt("d", HelloWorld)) =>
          /\ \A i \in 0..12 : ByteAt(512 + i) = HelloWorld[i + 1]
          /\ ByteAt(525) = 0
          /\ Len(image) = 1024

\* C4: a run that writes n bytes at offset leaves every byte outside
\* [offset, offset + n) as it was, never shortens the file, and keeps its
\* length when offset + n is within the old size.  Stated of the runs that
\* do not read through the null data_in.
C4_BytesOutsideRangeKept ==
    (Done /\ ~derefnull) =>
        /\ \A p \in 0..(Len(Before) - 1) :
              ~InOffsetRange(p, r) => ByteAt(p) = Before[p + 1]
        /\ Len(image) >= Len(Before)
        /\ (SmallNat(offset) >= 0 /\ SmallNat(offset) + r <= Len(Before))
              => Len(image) = Len(Before)

\* C4, where the code stands: the same of the range that begins at the
\* position fseek left.
BytesOutsideWrittenRangeKept ==
    Done =>
        /\ \A p \in 0..(Len(Before) - 1) :
              ~(p >= WriteStart /\ p < WriteStart + r) => ByteAt(p) = Before[p + 1]
        /\ Len(image) >= Len(Before)
        /\ WriteStart + r <= Len(Before) => Len(image) = Len(Before)

\* the exit code the order of C5 gives
ExitInOrder ==
    IF ~HasFlag("f") THEN 1
    ELSE IF file.str # ImagePath THEN 2
    ELSE IF r < count THEN 3
    ELSE 0

\* C5: the exit code is 1 without -f (no file touched), else 2 when the
\* file cannot be opened (not created, not modified), else 3 when fewer
\* bytes were written than requested, else 0; 0 only after a full write.
C5_ExitCodeOrder ==
    Done =>
        /\ exit = ExitInOrder
        /\ exit \in {1, 2} => (image = Before /\ fp = NULL)
        /\ exit = 0 => r = count

\* C5, where the code stands: the same of every run that is not killed.
ExitCodeOrderUnlessKilled ==
    (Done /\ exit # 139) =>
        /\ exit = ExitInOrder
        /\ exit \in {1, 2} => (image = Before /\ fp = NULL)
        /\ exit = 0 => r = count

\* C6: when main returns after having opened the file, the file is closed,
\* on the return of 3 as well.  Stated of the runs that do not read through
\* the null data_in.
C6_ClosedOnEveryReturn ==
    (Done /\ exit \in {0, 1, 2, 3} /\ ~derefnull /\ fp # NULL) => fp = "closed"

\* offset + written length is beyond what the platform seeks to
BeyondSeekLimit ==
    \/ IsNegative64(offset)
    \/ SmallNat(offset) < 0
    \/ SmallNat(offset) + count > SeekLimit

\* C7: when offset + written length exceeds the platform's seek limit (a
\* negative -a included), the run does not end with exit code 0.  Stated
\* of the runs that were given a payload.
C7_BeyondSeekLimitFails ==
    (Done /\ ~data_in.null /\ BeyondSeekLimit) => exit # 0

\* C8: the second run of a command line leaves the file as the first run
\* left it and returns the exit code of the first.
C8_SecondRunSame ==
    (Done /\ run = 2) => (image = image1 /\ exit = exit1)

\* C8's case: the second run of a command line that patched the file
\* has ended.
C8_Witness ==
    /\ Done
    /\ run = 2
    /\ ~data_in.null
    /\ exit = 0
    /\ count > 0
    /\ image # image0
    /\ image = image1

\* the decoding C9 describes: from the left, backslash r becomes 0x0D,
\* backslash n becomes 0x0A, every other character is copied
RECURSIVE Decoded(_)
Decoded(s) ==
    IF s = <<>> THEN <<>>
    ELSE IF Len(s) >= 2 /\ s[1] = 92 /\ s[2] \in {114, 110}
         THEN <<IF s[2] = 114 THEN 13 ELSE 10>> \o Decoded(SubSeq(s, 3, Len(s)))
    ELSE <<s[1]>> \o Decoded(Tail(s))

HasBackslash(s) == \E i \in 1..Len(s) : s[i] = 92

\* C9: copystr turns backslash r into 0x0D and backslash n into 0x0A in one
\* pass from the left and copies everything else, a backslash before any
\* other character included; a text without a backslash comes out as it
\* is, and a, backslash, n, b comes out as the three bytes a, 0x0A, b.
C9_CopystrDecodes ==
    (optind = 2 /\ argv[1].flag = "d") =>
        LET in == argv[1].val
            out == data_in.str
        IN  /\ ~data_in.null
            /\ out = Decoded(in)
            /\ ~HasBackslash(in) => out = in
            /\ in = EscapedLine => out = <<97, 10, 98>>
            /\ (Len(in) = 2 /\ in[1] = 92 /\ in[2] \in {92, 116}) => out = in

\* C9's case: copystr has decoded a, backslash, n, b
C9_Witness ==
    /\ optind = 2
    /\ argv[1] = Opt("d", EscapedLine)
    /\ data_in = Ptr(<<97, 10, 98>>)

\* C10: every invocation ends with exit code 0, 1, 2 or 3 and none reads a
\* payload that was never supplied.
C10_FourTerminalStates ==
    /\ Done => exit \in {0, 1, 2, 3}
    /\ ~derefnull

====
